---- MODULE Spec2Model ----
(***************************************************************************)
(* Wedding RSVP API (main.py): POST /rsvp guarded by an X-API-Key          *)
(* dependency, pydantic validation of RSVPData, credential resolution      *)
(* (get_google_client), and one append_row on a Google Sheet.              *)
(*                                                                         *)
(* Encoding of Python values:                                              *)
(*   None / absent JSON key      <<>>                                      *)
(*   a present value v           <<v>>                                     *)
(*   the str full_name           a sequence of one-character strings       *)
(*   other str values            TLA+ strings                              *)
(***************************************************************************)
EXTENDS Integers, Sequences, FiniteSets, TLC

\* ---------------------------------------------------------------- bounds
MaxRequests == 2      \* requests handled concurrently (SpecConc)
MaxNameLen == 2       \* longest full_name, in characters

None == <<>>
Some(v) == <<v>>

\* ------------------------------------------------------ program constants
API_KEY_NAME == "X-API-Key"
DEFAULT_SERVICE_ACCOUNT_FILE == "service_account_rsvp.json"
SPREADSHEET_NAME == "RSVP Responses"
WORKSHEET_NAME == "Responses"
AUTH_HINT == "No credentials file found and ADC failed. In Cloud Run, mount your Secret at e.g. /secrets/rsvp/service_account_rsvp.json and set GOOGLE_APPLICATION_CREDENTIALS=/secrets/rsvp/service_account_rsvp.json. Locally, keep service_account_rsvp.json in the project root."

\* ------------------------------------------------------------ input sets
Requests == 1..MaxRequests
Chars == {" ", "J"}
RECURSIVE StrOfLen(_)
StrOfLen(n) == IF n = 0 THEN {<<>>}
               ELSE {Append(s, c) : s \in StrOfLen(n - 1), c \in Chars}
Names == UNION {StrOfLen(n) : n \in 0..MaxNameLen}
Tri == {None, Some(TRUE), Some(FALSE)}
OptStr == {None, Some(""), Some("vegan")}
\* what a caller may send as "timestamp" (an extra key RSVPData does not declare)
CallerTimestamps == {None, Some("yesterday"), Some("2024-12-31T23:59:59")}
ApiKeys == {None, Some(""), Some("k1")}
Headers == {None, Some(""), Some("k1"), Some("k2")}
GAC_PATH == "/secrets/rsvp/service_account_rsvp.json"
SAF_PATH == "/etc/rsvp/sa.json"
Paths == {GAC_PATH, SAF_PATH, DEFAULT_SERVICE_ACCOUNT_FILE}
BackendFaults == {"Quota exceeded"}
ADCOutcomes == {"ok", "DefaultCredentialsError", "Exception"}
\* datetime.utcnow(): the date and hour:minute are fixed, the second and the
\* microsecond are what the clock shows when the row is built
Clock == {[second |-> 7, microsecond |-> 0], [second |-> 42, microsecond |-> 250000]}

VARIABLES
  VALID_API_KEY,   \* os.getenv("VALID_API_KEY"), read once at import
  environ,         \* GOOGLE_APPLICATION_CREDENTIALS and SERVICE_ACCOUNT_FILE
  isfile,          \* the paths for which os.path.isfile is true
  pc,              \* per request: where it is in the pipeline
  header,          \* per request: the X-API-Key header
  body,            \* per request: the JSON body
  data,            \* per request: the RSVPData instance
  client,          \* per request: the gspread client get_google_client returned
  calls,           \* per request: external calls made, in order
  response,        \* per request: the HTTP response
  sheet            \* the worksheet's appended rows, in order

vars == <<VALID_API_KEY, environ, isfile, pc, header, body, data, client,
          calls, response, sheet>>
config == <<VALID_API_KEY, environ, isfile>>


\* ------------------------------------------------------------ data model
Fields == {"full_name", "dietary_requirements", "rehearsal_dinner", "ceremony",
           "brunch", "plus_one_name", "plus_one_dietary_requirements",
           "plus_one_rehearsal_dinner", "plus_one_ceremony", "plus_one_brunch"}

\* A JSON body; full_name is None when the key is absent.
Body(n, d, f, pn, pd, ts) ==
  [full_name |-> n, dietary_requirements |-> d,
   rehearsal_dinner |-> f[1], ceremony |-> f[2], brunch |-> f[3],
   plus_one_name |-> pn, plus_one_dietary_requirements |-> pd,
   plus_one_rehearsal_dinner |-> f[4], plus_one_ceremony |-> f[5],
   plus_one_brunch |-> f[6], timestamp |-> ts]

\* RSVPData(**body): full_name is required; the nine Optional fields default
\* to None; keys the model does not declare (timestamp) are ignored.
RSVPData_valid(b) == b.full_name # None

RSVPData(b) ==
  [full_name |-> b.full_name[1],
   dietary_requirements |-> b.dietary_requirements,
   rehearsal_dinner |-> b.rehearsal_dinner,
   ceremony |-> b.ceremony,
   brunch |-> b.brunch,
   plus_one_name |-> b.plus_one_name,
   plus_one_dietary_requirements |-> b.plus_one_dietary_requirements,
   plus_one_rehearsal_dinner |-> b.plus_one_rehearsal_dinner,
   plus_one_ceremony |-> b.plus_one_ceremony,
   plus_one_brunch |-> b.plus_one_brunch]

NoData == [f \in Fields |-> None]

\* ------------------------------------------------------- pure functions
\* a two-state mapping: whatever is not True is written as "No"
yes_no_binary(val) == IF val = Some(TRUE) THEN "Yes" ELSE "No"

yes_no(val) ==
  IF val = Some(TRUE) THEN "Yes"
  ELSE IF val = Some(FALSE) THEN "No"
  ELSE ""

\* Python's  x or ""  on an Optional[str]
or_empty(x) == IF x = None \/ x = Some("") THEN "" ELSE x[1]

\* "%0<width>d" % n
RECURSIVE zfill(_, _)
zfill(n, width) ==
  IF width <= 1 \/ n >= 10 ^ (width - 1) THEN ToString(n)
  ELSE "0" \o zfill(n, width - 1)

\* datetime.isoformat(): the microseconds are printed only when non-zero
isoformat(dt) ==
  "2025-06-01T12:30:" \o zfill(dt.second, 2)
    \o (IF dt.microsecond = 0 THEN "" ELSE "." \o zfill(dt.microsecond, 6))

build_row(d, now) ==
  << d.full_name,
     or_empty(d.dietary_requirements),
     yes_no(d.rehearsal_dinner),
     yes_no(d.ceremony),
     yes_no(d.brunch),
     or_empty(d.plus_one_name),
     or_empty(d.plus_one_dietary_requirements),
     yes_no(d.plus_one_rehearsal_dinner),
     yes_no(d.plus_one_ceremony),
     yes_no(d.plus_one_brunch),
     isoformat(now) >>

\* ---------------------------------------------------------- exceptions
HTTPException(status_code, detail) ==
  [type |-> "HTTPException", status_code |-> status_code, detail |-> detail]

BackendError(type, msg) == [type |-> type, msg |-> msg]

\* str(e): Starlette prints an HTTPException as "<status>: <detail>"
str(e) ==
  IF e.type = "HTTPException"
  THEN ToString(e.status_code) \o ": " \o e.detail
  ELSE e.msg

\* FastAPI turns a raised HTTPException into a response {"detail": ...}
http_exception_response(e) ==
  [status |-> e.status_code, body |-> [detail |-> e.detail]]

\* the catch-all clause placed first: every fault becomes a 500
submit_rsvp_except_generic(e) == HTTPException(500, str(e))

\* the except clauses of submit_rsvp
submit_rsvp_except(e) ==
  IF e.type = "SpreadsheetNotFound"
  THEN HTTPException(404, "Spreadsheet '" \o SPREADSHEET_NAME
                             \o "' not found. Check sharing and name.")
  ELSE IF e.type = "WorksheetNotFound"
  THEN HTTPException(404, "Worksheet '" \o WORKSHEET_NAME
                             \o "' not found in spreadsheet.")
  ELSE HTTPException(500, str(e))

NoResponse == [status |-> 0]

\* one external call: what was called, with what, and what it raised
NoError == [type |-> "", msg |-> ""]
Call(fn, arg, err) == [fn |-> fn, arg |-> arg, ok |-> err = NoError, err |-> err]

\* -------------------------------------------------- credential resolution
\* os.getenv("GOOGLE_APPLICATION_CREDENTIALS") or os.getenv("SERVICE_ACCOUNT_FILE")
env_path ==
  IF environ.GOOGLE_APPLICATION_CREDENTIALS # None
  THEN environ.GOOGLE_APPLICATION_CREDENTIALS
  ELSE environ.SERVICE_ACCOUNT_FILE

\* the local file preferred over the path from the environment
resolve_credentials_path_default_first ==
  IF DEFAULT_SERVICE_ACCOUNT_FILE \in isfile
  THEN Some(DEFAULT_SERVICE_ACCOUNT_FILE)
  ELSE IF env_path # None /\ env_path[1] \in isfile THEN env_path
  ELSE None

resolve_credentials_path ==
  IF env_path # None /\ env_path[1] \in isfile THEN env_path
  ELSE IF DEFAULT_SERVICE_ACCOUNT_FILE \in isfile
       THEN Some(DEFAULT_SERVICE_ACCOUNT_FILE)
  ELSE None

AUTH_FAILED == HTTPException(500, "Google Sheets authentication failed. " \o AUTH_HINT)


\* ---------------------------------------------------------------- actions
Finish(r, resp) ==
  /\ response' = [response EXCEPT ![r] = resp]
  /\ pc' = [pc EXCEPT ![r] = "done"]

\* an exception raised inside the try block of submit_rsvp
Raise(r, e) == Finish(r, http_exception_response(submit_rsvp_except(e)))

\* A POST /rsvp arrives with header h and JSON body b.
receive(r, H, B) ==
  /\ pc[r] = "idle"
  /\ \E h \in H, b \in B :
       /\ header' = [header EXCEPT ![r] = h]
       /\ body' = [body EXCEPT ![r] = b]
  /\ pc' = [pc EXCEPT ![r] = "deps"]
  /\ UNCHANGED <<config, data, client, calls, response, sheet>>

\* APIKeyHeader(auto_error=True): no header, or an empty one, is refused
\* before verify_api_key is called.
api_key_header(r) == header[r] # None /\ header[r] # Some("")

\* a check that only asks whether a key was sent
invalid_api_key_presence_only(r) == header[r] = None

\* if api_key != VALID_API_KEY
invalid_api_key(r) == header[r] # VALID_API_KEY

\* Depends(verify_api_key)
verify_api_key(r) ==
  /\ pc[r] = "deps"
  /\ IF ~api_key_header(r)
     THEN Finish(r, http_exception_response(HTTPException(403, "Not authenticated")))
     ELSE IF VALID_API_KEY = None
     THEN /\ pc' = [pc EXCEPT ![r] = "validate"]
          /\ UNCHANGED response
     ELSE IF invalid_api_key(r)
     THEN Finish(r, http_exception_response(HTTPException(403, "Invalid API key")))
     ELSE /\ pc' = [pc EXCEPT ![r] = "validate"]
          /\ UNCHANGED response
  /\ UNCHANGED <<config, header, body, data, client, calls, sheet>>

\* the parsed record kept in one module-level slot shared by all requests
validate_body_shared(r) ==
  /\ pc[r] = "validate"
  /\ IF RSVPData_valid(body[r])
     THEN /\ data' = [q \in Requests |-> RSVPData(body[r])]
          /\ pc' = [pc EXCEPT ![r] = "auth"]
          /\ UNCHANGED response
     ELSE /\ Finish(r, [status |-> 422,
                        body |-> [detail |-> "missing: body.full_name: Field required"]])
          /\ UNCHANGED data
  /\ UNCHANGED <<config, header, body, client, calls, sheet>>

\* data: RSVPData -- the body is validated before submit_rsvp is called
validate_body(r) ==
  /\ pc[r] = "validate"
  /\ IF RSVPData_valid(body[r])
     THEN /\ data' = [data EXCEPT ![r] = RSVPData(body[r])]
          /\ pc' = [pc EXCEPT ![r] = "auth"]
          /\ UNCHANGED response
     ELSE /\ Finish(r, [status |-> 422,
                        body |-> [detail |-> "missing: body.full_name: Field required"]])
          /\ UNCHANGED data
  /\ UNCHANGED <<config, header, body, client, calls, sheet>>

\* client = get_google_client()
get_google_client(r) ==
  /\ pc[r] = "auth"
  /\ LET creds_path == resolve_credentials_path IN
     \E file_ok \in BOOLEAN, adc \in ADCOutcomes :
       LET try_file == creds_path # None
           from_file == try_file /\ file_ok
           file_err == IF file_ok THEN NoError
                       ELSE BackendError("Exception", "invalid service account file")
           adc_err == IF adc = "ok" THEN NoError
                      ELSE BackendError(adc, "could not determine default credentials")
           file_calls == IF try_file
                         THEN <<Call("service_account", creds_path, file_err)>>
                         ELSE <<>>
           adc_calls == IF from_file THEN <<>>
                        ELSE <<Call("google_auth_default", <<>>, adc_err)>>
       IN /\ (~try_file => file_ok)
          /\ (from_file => adc = "ok")
          /\ calls' = [calls EXCEPT ![r] = @ \o file_calls \o adc_calls]
          /\ IF from_file
             THEN /\ client' = [client EXCEPT ![r] = Some(creds_path[1])]
                  /\ pc' = [pc EXCEPT ![r] = "open"]
                  /\ UNCHANGED response
             ELSE IF adc = "ok"
             THEN /\ client' = [client EXCEPT ![r] = Some("ADC")]
                  /\ pc' = [pc EXCEPT ![r] = "open"]
                  /\ UNCHANGED response
             ELSE /\ Raise(r, AUTH_FAILED)
                  /\ UNCHANGED client
  /\ UNCHANGED <<config, header, body, data, sheet>>

\* sheet = client.open(SPREADSHEET_NAME)
open_spreadsheet(r) ==
  /\ pc[r] = "open"
  /\ \/ /\ calls' = [calls EXCEPT ![r] = Append(@, Call("open", <<SPREADSHEET_NAME>>, NoError))]
        /\ pc' = [pc EXCEPT ![r] = "worksheet"]
        /\ UNCHANGED response
     \/ \E e \in {BackendError("SpreadsheetNotFound", "")}
                 \cup {BackendError("APIError", m) : m \in BackendFaults} :
          /\ calls' = [calls EXCEPT ![r] = Append(@, Call("open", <<SPREADSHEET_NAME>>, e))]
          /\ Raise(r, e)
  /\ UNCHANGED <<config, header, body, data, client, sheet>>

\* worksheet = sheet.worksheet(WORKSHEET_NAME)
open_worksheet(r) ==
  /\ pc[r] = "worksheet"
  /\ \/ /\ calls' = [calls EXCEPT ![r] = Append(@, Call("worksheet", <<WORKSHEET_NAME>>, NoError))]
        /\ pc' = [pc EXCEPT ![r] = "append"]
        /\ UNCHANGED response
     \/ \E e \in {BackendError("WorksheetNotFound", WORKSHEET_NAME)}
                 \cup {BackendError("APIError", m) : m \in BackendFaults} :
          /\ calls' = [calls EXCEPT ![r] = Append(@, Call("worksheet", <<WORKSHEET_NAME>>, e))]
          /\ Raise(r, e)
  /\ UNCHANGED <<config, header, body, data, client, sheet>>

\* append_row called a second time after a fault of the first call
append_row_retry(r) ==
  /\ pc[r] = "append"
  /\ \E now \in Clock :
       LET row == build_row(data[r], now) IN
       \/ /\ calls' = [calls EXCEPT ![r] = Append(@, Call("append_row", row, NoError))]
          /\ sheet' = Append(sheet, row)
          /\ pc' = [pc EXCEPT ![r] = "return"]
          /\ UNCHANGED response
       \/ \E m \in BackendFaults :
            /\ calls' = [calls EXCEPT ![r] =
                           @ \o <<Call("append_row", row, BackendError("APIError", m)),
                                  Call("append_row", row, NoError)>>]
            /\ sheet' = Append(sheet, row)
            /\ pc' = [pc EXCEPT ![r] = "return"]
            /\ UNCHANGED response
  /\ UNCHANGED <<config, header, body, data, client>>

\* row = [...]; worksheet.append_row(row)
append_row(r) ==
  /\ pc[r] = "append"
  /\ \E now \in Clock :
       LET row == build_row(data[r], now) IN
       \/ /\ calls' = [calls EXCEPT ![r] = Append(@, Call("append_row", row, NoError))]
          /\ sheet' = Append(sheet, row)
          /\ pc' = [pc EXCEPT ![r] = "return"]
          /\ UNCHANGED response
       \/ \E m \in BackendFaults :
            /\ calls' = [calls EXCEPT ![r] =
                           Append(@, Call("append_row", row, BackendError("APIError", m)))]
            /\ Raise(r, BackendError("APIError", m))
            /\ UNCHANGED sheet
  /\ UNCHANGED <<config, header, body, data, client>>

\* return {"success": True, "message": ..., "details": data.model_dump()}
return_success(r) ==
  /\ pc[r] = "return"
  /\ Finish(r, [status |-> 200,
                body |-> [success |-> TRUE,
                          message |-> "RSVP submitted successfully!",
                          details |-> data[r]]])
  /\ UNCHANGED <<config, header, body, data, client, calls, sheet>>

submit_rsvp(r) ==
  \/ open_spreadsheet(r)
  \/ open_worksheet(r)
  \/ append_row(r)
  \/ return_success(r)

handle(r) ==
  \/ verify_api_key(r)
  \/ validate_body(r)
  \/ get_google_client(r)
  \/ submit_rsvp(r)

\* ----------------------------------------------------------- initial states
Environs == [GOOGLE_APPLICATION_CREDENTIALS : {None, Some(GAC_PATH)},
             SERVICE_ACCOUNT_FILE : {None, Some(SAF_PATH)}]

InitRequests ==
  /\ pc = [r \in Requests |-> "idle"]
  /\ header = [r \in Requests |-> None]
  /\ body = [r \in Requests |-> Body(None, None, <<None, None, None, None, None, None>>, None, None, None)]
  /\ data = [r \in Requests |-> NoData]
  /\ client = [r \in Requests |-> None]
  /\ calls = [r \in Requests |-> <<>>]
  /\ response = [r \in Requests |-> NoResponse]
  /\ sheet = <<>>

\* ----- Spec: one request, every configuration, two bodies
NoFlags == <<None, None, None, None, None, None>>
SomeFlags == <<Some(TRUE), Some(FALSE), None, None, Some(TRUE), Some(FALSE)>>
BodiesSpec == {Body(None, None, NoFlags, None, None, None),
               Body(Some(<<"J">>), Some("vegan"), SomeFlags, None, None, None)}

Init ==
  /\ VALID_API_KEY \in ApiKeys
  /\ environ \in Environs
  /\ isfile \in SUBSET Paths
  /\ InitRequests

Next == \E r \in {1} : receive(r, Headers, BodiesSpec) \/ handle(r)

Spec == Init /\ [][Next]_vars


\* ----- SpecRow: one request, one configuration, many bodies
NameInputs == {None} \cup {Some(n) : n \in Names}
TriFlags == {<<a, b, c, d, e, f>> : a \in Tri, b \in Tri, c \in Tri,
                                    d \in Tri, e \in Tri, f \in Tri}
BodiesRow ==
  {Body(n, d, SomeFlags, pn, pd, ts) :
     n \in NameInputs, d \in OptStr, pn \in OptStr, pd \in OptStr,
     ts \in CallerTimestamps}
  \cup {Body(Some(<<"J">>), d, f, Some("Sam"), None, None) :
          d \in OptStr, f \in TriFlags}

InitRow ==
  /\ VALID_API_KEY = Some("k1")
  /\ environ = [GOOGLE_APPLICATION_CREDENTIALS |-> None, SERVICE_ACCOUNT_FILE |-> None]
  /\ isfile = {DEFAULT_SERVICE_ACCOUNT_FILE}
  /\ InitRequests

NextRow == \E r \in {1} : receive(r, {Some("k1")}, BodiesRow) \/ handle(r)

SpecRow == InitRow /\ [][NextRow]_vars

\* ----- SpecConc: MaxRequests requests in flight at once, one configuration
BodiesConc == {Body(Some(<<"J">>), Some("vegan"), SomeFlags, None, None, None),
               Body(Some(<<" ">>), None, NoFlags, Some("Sam"), None, Some("yesterday"))}

NextConc == \E r \in Requests : receive(r, {Some("k1"), Some("k2")}, BodiesConc) \/ handle(r)

SpecConc == InitRow /\ [][NextConc]_vars


\* ============================================================ properties
CallIdx(r, fn) == {i \in DOMAIN calls[r] : calls[r][i].fn = fn}
Appends(r) == CallIdx(r, "append_row")
LastCall(r) == calls[r][Len(calls[r])]
Succeeded(r) == pc[r] = "done" /\ response[r].status = 200

\* the label the specification gives a tri-state flag
YN(v) == CASE v = <<TRUE>> -> "Yes" [] v = <<FALSE>> -> "No" [] v = <<>> -> ""
OrBlank(v) == IF v = <<>> THEN "" ELSE v[1]
ExpectedColumns(b) ==
  << b.full_name[1], OrBlank(b.dietary_requirements),
     YN(b.rehearsal_dinner), YN(b.ceremony), YN(b.brunch),
     OrBlank(b.plus_one_name), OrBlank(b.plus_one_dietary_requirements),
     YN(b.plus_one_rehearsal_dinner), YN(b.plus_one_ceremony),
     YN(b.plus_one_brunch) >>
\* YYYY-MM-DDTHH:MM:SS[.ffffff] for the readings the clock can show
IsIsoTimestamp(ts) == ts \in {"2025-06-01T12:30:07", "2025-06-01T12:30:42.250000"}

\* C1: every row handed to append_row is the fixed, ordered mapping of the
\* request's record -- full_name, dietary or "", the three labels, plus-one
\* name or "", plus-one dietary or "", the three plus-one labels, then the
\* timestamp last -- where an unspecified flag is written "" and never "No";
\* and a request whose append returned has appended exactly that one row.
C1_RowMapping ==
  \A r \in Requests :
    /\ \A i \in Appends(r) :
         LET row == calls[r][i].arg IN
           /\ Len(row) = 11
           /\ SubSeq(row, 1, 10) = ExpectedColumns(body[r])
           /\ IsIsoTimestamp(row[11])
    /\ (pc[r] = "return" \/ Succeeded(r)) =>
         /\ Cardinality(Appends(r)) = 1
         /\ LastCall(r).fn = "append_row"
         /\ sheet = <<LastCall(r).arg>>

C1_Witness ==
  \E r \in Requests :
    /\ Succeeded(r)
    /\ body[r].rehearsal_dinner = Some(TRUE)
    /\ body[r].ceremony = None
    /\ body[r].brunch = Some(FALSE)
    /\ body[r].plus_one_ceremony = None
    /\ Len(sheet) = 1
    /\ sheet[1][3] = "Yes" /\ sheet[1][4] = "" /\ sheet[1][5] = "No"
    /\ sheet[1][9] = ""

\* str.strip() on a full_name
RECURSIVE lstrip(_)
lstrip(s) == IF s # <<>> /\ Head(s) = " " THEN lstrip(Tail(s)) ELSE s
RECURSIVE rstrip(_)
rstrip(s) == IF s # <<>> /\ s[Len(s)] = " " THEN rstrip(SubSeq(s, 1, Len(s) - 1)) ELSE s
Trim(s) == rstrip(lstrip(s))

\* C2: no row with an empty or whitespace-only full_name is ever appended
\* (such a request is a validation failure and reaches no append_row), and
\* the first column written is the name trimmed of surrounding whitespace.
C2_NoBlankName ==
  \A r \in Requests : \A i \in Appends(r) :
    /\ Trim(body[r].full_name[1]) # <<>>
    /\ calls[r][i].arg[1] = Trim(body[r].full_name[1])

\* C8: the timestamp column is the caller's timestamp, verbatim, whenever the
\* request supplies one; the clock is read only when it supplies none.
C8_CallerTimestamp ==
  \A r \in Requests : \A i \in Appends(r) :
    IF body[r].timestamp # None
    THEN calls[r][i].arg[11] = body[r].timestamp[1]
    ELSE IsIsoTimestamp(calls[r][i].arg[11])


\* C3: with a key configured, a request whose X-API-Key header is missing or
\* differs from the key is refused by the dependency: it never gets past the
\* key check, its body is never parsed into a record, and get_google_client,
\* open, worksheet and append_row are never called for it.
C3_KeyRejected ==
  \A r \in Requests :
    (VALID_API_KEY # None /\ pc[r] # "idle" /\ header[r] # VALID_API_KEY) =>
      /\ pc[r] \in {"deps", "done"}
      /\ calls[r] = <<>>
      /\ client[r] = None
      /\ data[r] = NoData
      /\ sheet = <<>>
      /\ (pc[r] = "done" => response[r].status = 403)

C3_Witness ==
  \E r \in Requests :
    /\ VALID_API_KEY = Some("k1")
    /\ header[r] = Some("k2")
    /\ pc[r] = "done"
    /\ response[r].status = 403

\* C7: with no key configured the key check is disabled: no request is
\* refused for its X-API-Key header, a request that sends none included.
C7_CheckDisabled ==
  VALID_API_KEY = None =>
    \A r \in Requests : pc[r] = "done" => response[r].status \notin {401, 403}

\* C4: every finished request carries one body of the shape
\* {success, message|error, details?}: success=true with details equal to the
\* record, or success=false with an error string and no details.
UniformShape(b, record) ==
  /\ "success" \in DOMAIN b
  /\ IF b.success
     THEN /\ "message" \in DOMAIN b
          /\ "details" \in DOMAIN b
          /\ b.details = record
     ELSE /\ "error" \in DOMAIN b
          /\ "details" \notin DOMAIN b

C4_UniformResponse ==
  \A r \in Requests : pc[r] = "done" => UniformShape(response[r].body, data[r])

\* C5: a spreadsheet lookup failure, a worksheet lookup failure and any other
\* backend fault end in three different failure responses -- 404 naming the
\* spreadsheet, 404 naming the worksheet, 500 carrying the backend's message --
\* and in the two not-found cases the request made no append_row call.
FailureKind(resp) ==
  IF resp.status = 404 /\ resp.body.detail =
       "Spreadsheet '" \o SPREADSHEET_NAME \o "' not found. Check sharing and name."
  THEN "spreadsheet"
  ELSE IF resp.status = 404 /\ resp.body.detail =
       "Worksheet '" \o WORKSHEET_NAME \o "' not found in spreadsheet."
  THEN "worksheet"
  ELSE IF resp.status = 500 THEN "backend"
  ELSE "other"

BackendCalls == {"open", "worksheet", "append_row"}

C5_DistinctFailures ==
  \A r \in Requests :
    (calls[r] # <<>> /\ LastCall(r).fn \in BackendCalls /\ ~LastCall(r).ok) =>
      LET e == LastCall(r).err IN
        /\ pc[r] = "done"
        /\ "detail" \in DOMAIN response[r].body
        /\ e.type = "SpreadsheetNotFound" =>
             FailureKind(response[r]) = "spreadsheet" /\ Appends(r) = {}
        /\ e.type = "WorksheetNotFound" =>
             FailureKind(response[r]) = "worksheet" /\ Appends(r) = {}
        /\ e.type = "APIError" =>
             FailureKind(response[r]) = "backend" /\ response[r].body.detail = e.msg

C5_Witness ==
  \E r \in Requests :
    /\ pc[r] = "done"
    /\ calls[r] # <<>>
    /\ LastCall(r).fn = "open"
    /\ LastCall(r).err.type = "SpreadsheetNotFound"
    /\ response[r].status = 404


\* ----- credential strategies, as seen in a request's calls
AuthCalls == {"service_account", "google_auth_default"}
AuthRan(r) == \E i \in DOMAIN calls[r] : calls[r][i].fn \in AuthCalls
FileTries(r, path) ==
  {i \in CallIdx(r, "service_account") : calls[r][i].arg = <<path>>}
ExplicitAvailable == env_path # None /\ env_path[1] \in isfile
DefaultAvailable == DEFAULT_SERVICE_ACCOUNT_FILE \in isfile
TriedExplicit(r) == env_path # None /\ FileTries(r, env_path[1]) # {}
TriedDefault(r) == FileTries(r, DEFAULT_SERVICE_ACCOUNT_FILE) # {}
TriedADC(r) == CallIdx(r, "google_auth_default") # {}
ExplicitFailed(r) ==
  env_path # None /\ \E i \in FileTries(r, env_path[1]) : ~calls[r][i].ok
DefaultFailed(r) ==
  \E i \in FileTries(r, DEFAULT_SERVICE_ACCOUNT_FILE) : ~calls[r][i].ok
AuthDiagnostic(r) ==
  /\ pc[r] = "done"
  /\ response[r].status = 500
  /\ response[r].body.detail = "500: Google Sheets authentication failed. " \o AUTH_HINT

\* what holds of the strategies whichever reading of the fallback is taken:
\* the order of the attempts, one attempt each, the client of the first
\* success, the diagnostic when the last attempt failed
StrategyOrder(r) ==
  /\ Cardinality(CallIdx(r, "service_account")) <= 1
  /\ Cardinality(CallIdx(r, "google_auth_default")) <= 1
  /\ \A i \in CallIdx(r, "service_account"), j \in CallIdx(r, "google_auth_default") :
       i < j
  /\ \A i \in DOMAIN calls[r] :
       (calls[r][i].fn \in AuthCalls /\ calls[r][i].ok) =>
         /\ \A j \in 1..(i - 1) : ~calls[r][j].ok
         /\ \A j \in (i + 1)..Len(calls[r]) : calls[r][j].fn \notin AuthCalls
         /\ client[r] = IF calls[r][i].fn = "service_account"
                        THEN calls[r][i].arg ELSE Some("ADC")
  /\ (client[r] # None) =
       (\E i \in DOMAIN calls[r] : calls[r][i].fn \in AuthCalls /\ calls[r][i].ok)

\* C6 as stated: explicit file, default local file, ambient credentials, each
\* attempted exactly when every earlier one was unavailable or failed -- so
\* the default local file is attempted after the explicit file failed -- and
\* the diagnostic only when all are exhausted.
C6_FallbackChain ==
  \A r \in Requests : AuthRan(r) =>
    /\ StrategyOrder(r)
    /\ TriedExplicit(r) = ExplicitAvailable
    /\ TriedDefault(r) = (DefaultAvailable /\ (~ExplicitAvailable \/ ExplicitFailed(r)))
    /\ TriedADC(r) = /\ (~ExplicitAvailable \/ ExplicitFailed(r))
                     /\ (~DefaultAvailable \/ DefaultFailed(r))
    /\ AuthDiagnostic(r) =
         (TriedADC(r) /\ \A i \in CallIdx(r, "google_auth_default") : ~calls[r][i].ok)

\* C6 amended: one credentials file is resolved -- the explicit path if it
\* names an existing file, otherwise the default local file if it exists --
\* and only that file is attempted; the default local file is not attempted
\* after the explicit file failed. Ambient credentials are attempted exactly
\* when no file was resolved or the resolved file failed; the client is that
\* of the first attempt that succeeds; the diagnostic is returned exactly
\* when ambient credentials were attempted and failed.
C6_ResolvedFileThenADC ==
  \A r \in Requests : AuthRan(r) =>
    /\ StrategyOrder(r)
    /\ TriedExplicit(r) = ExplicitAvailable
    /\ TriedDefault(r) = (DefaultAvailable /\ ~ExplicitAvailable)
    /\ TriedADC(r) = (\A i \in CallIdx(r, "service_account") : ~calls[r][i].ok)
    /\ AuthDiagnostic(r) =
         (TriedADC(r) /\ \A i \in CallIdx(r, "google_auth_default") : ~calls[r][i].ok)

C6_Witness ==
  \E r \in Requests :
    /\ ExplicitAvailable /\ DefaultAvailable
    /\ ExplicitFailed(r)
    /\ ~TriedDefault(r)
    /\ client[r] = Some("ADC")

\* C9: within a request the calls run in the order authenticate, open,
\* worksheet, append_row, each at most once and each only after the one
\* before it returned without error; append_row is never called again after
\* a fault; success is returned only after the one append_row call returned.
Rank(fn) ==
  CASE fn \in AuthCalls -> 1 [] fn = "open" -> 2
    [] fn = "worksheet" -> 3 [] fn = "append_row" -> 4

AppendedOk(r) == \E i \in Appends(r) : calls[r][i].ok

C9_LinearOrder ==
  /\ Len(sheet) = Cardinality({r \in Requests : AppendedOk(r)})
  /\ \A r \in Requests :
    LET n == Len(calls[r]) IN
      /\ \A fn \in BackendCalls : Cardinality(CallIdx(r, fn)) <= 1
      /\ \A i \in 1..n, j \in 1..n :
           (i < j) => Rank(calls[r][i].fn) <= Rank(calls[r][j].fn)
      /\ \A i \in 1..n :
           calls[r][i].fn \in BackendCalls =>
             /\ i > 1
             /\ calls[r][i - 1].ok
             /\ Rank(calls[r][i - 1].fn) = Rank(calls[r][i].fn) - 1
             /\ client[r] # None
      /\ (pc[r] = "return" \/ Succeeded(r)) =>
           /\ n > 0
           /\ LastCall(r).fn = "append_row"
           /\ LastCall(r).ok
      /\ (n > 0 /\ LastCall(r).fn = "append_row" /\ ~LastCall(r).ok) =>
           pc[r] = "done" /\ response[r].status = 500

C9_Witness ==
  \E r \in Requests :
    /\ Succeeded(r)
    /\ Len(calls[r]) = 5
    /\ Len(sheet) = 1


\* C10: requests are independent under any interleaving. Each request whose
\* append returned has made exactly one append_row call, with the row of its
\* own payload; the sheet holds exactly the rows of the append_row calls that
\* returned; every request past authentication resolved credentials itself;
\* whatever the other requests did, a request in the handler can still take
\* its next step without failing; a step of one request changes nothing of
\* another request or of the configuration, and changes the sheet only by
\* appending that request's row.
Local(r) == <<pc[r], header[r], body[r], data[r], client[r], calls[r], response[r]>>
Count(row) == Cardinality({k \in DOMAIN sheet : sheet[k] = row})
Appended(row) ==
  Cardinality({r \in Requests : \E i \in Appends(r) :
                 calls[r][i].ok /\ calls[r][i].arg = row})

C10_State ==
  /\ Len(sheet) = Cardinality({r \in Requests : AppendedOk(r)})
  /\ \A k \in DOMAIN sheet : Count(sheet[k]) = Appended(sheet[k])
  /\ \A r \in Requests :
       /\ \A i \in Appends(r) :
            SubSeq(calls[r][i].arg, 1, 10) = ExpectedColumns(body[r])
       /\ (pc[r] = "return" \/ Succeeded(r)) =>
            Cardinality(Appends(r)) = 1 /\ AppendedOk(r)
       /\ AppendedOk(r) => pc[r] = "return" \/ Succeeded(r)
       /\ pc[r] \in {"open", "worksheet", "append", "return"} => AuthRan(r)
       /\ pc[r] \in {"auth", "open", "worksheet", "append", "return"} =>
            ENABLED (handle(r) /\ response'[r].status \in {0, 200})

C10_Step ==
  \A r \in Requests :
    Local(r)' # Local(r) =>
      /\ \A q \in Requests \ {r} : Local(q)' = Local(q)
      /\ config' = config
      /\ \/ sheet' = sheet
         \/ /\ AppendedOk(r)'
            /\ ~AppendedOk(r)
            /\ sheet' = Append(sheet, LastCall(r)'.arg)

C10_Independent == []C10_State /\ [][C10_Step]_vars

C10_Witness ==
  \E r \in Requests, q \in Requests :
    /\ Succeeded(r)
    /\ pc[q] = "done"
    /\ response[q].status = 500
    /\ calls[q] # <<>>
    /\ LastCall(q).fn = "append_row"
    /\ body[q] # body[r]
    /\ Len(sheet) = 1

====
